---- MODULE Spec2Model ----
(***************************************************************************)
(* builder_macro: a macro_rules! pipeline that turns a terse struct        *)
(* specification into a record type, a builder type, and the builder's     *)
(* new / setters / build.                                                  *)
(*                                                                         *)
(* Two specifications are developed here.                                  *)
(*   Spec       the builder generated by impl_builder! (split pipeline,    *)
(*              src/src/impl_builder.rs) and by declare_struct_and_builder!*)
(*              (pipeline without the mandatory/optional split,            *)
(*              src/src/declare_struct_and_builder.rs): expansion of the   *)
(*              macro, then calls of new, the setters and build.           *)
(*   ParseSpec  the compile-time rewriting done by data_struct! /          *)
(*              object_struct! -> parse_struct! -> impl_struct_and_builder!*)
(*              -> declare_structs! + impl_builder!.                       *)
(***************************************************************************)
EXTENDS Integers, Sequences, FiniteSets, TLC

(***************************************************************************)
(* Bounds of the model.                                                    *)
(***************************************************************************)
MaxFields == 2
MaxVal == 1
MaxAsserts == 2
MaxRaw == 3
MaxTwinAsserts == 1

Values == 0..MaxVal

\* Field names: the field declared at position i is called FieldNames[i].
FieldNames == <<"a", "b", "c", "d", "e">>

\* Option<T>: None is the empty sequence, Some(v) the one-element sequence.
None == <<>>
Some(v) == <<v>>
IsSome(o) == o # <<>>
Unwrap(o) == o[1]

\* Default expressions as written in a field spec.
NoneExpr == [kind |-> "none", val |-> 0]
SomeExpr(v) == [kind |-> "some", val |-> v]
LitExpr(v) == [kind |-> "lit", val |-> v]

\* Value of a default expression: `None`, `Some(v)` or the literal `v`.
EvalExpr(e) ==
    IF e.kind = "none" THEN None
    ELSE IF e.kind = "some" THEN Some(e.val)
    ELSE e.val

VARIABLES
    purpose,      \* "data" | "object"
    variant,      \* "non_consuming" | "consuming"
    split,        \* TRUE: impl_builder!, FALSE: declare_struct_and_builder!
    fields,       \* the field specs handed to the macro, in declaration order
    assertions,   \* the assertion expressions handed to the macro, in order
    phase,        \* "input" | "expanded" | "idle"
    gen,          \* the expansion: constructor params, assignments, setters
    builder,      \* the builder value: [st, slots]
    args,         \* arguments of the new(...) call that made the builder
    lastSet,      \* per field: the value of the last setter call, if any
    result,       \* what the last build() call produced
    call,         \* the last method call: its name, its self parameter, its return type
    twin,         \* the builder made by a second call of new, with its own history
    history,      \* what earlier build() calls on this builder returned
    input,        \* the tokens handed to data_struct! / object_struct!
    parser,       \* the arguments of the current parse_struct! invocation
    output        \* what the expansion has produced so far

builderVars == <<purpose, variant, split, fields, assertions, phase, gen, builder,
                 args, lastSet, result, call, twin, history>>

parseVars == <<input, parser, output>>

vars == <<purpose, variant, split, fields, assertions, phase, gen, builder,
          args, lastSet, result, call, twin, history, input, parser, output>>

(***************************************************************************)
(* Inputs of the builder macros.                                           *)
(***************************************************************************)

\* impl_builder! field specs: { req: <bool>, default: <expr>, spec: name: ty }.
\* A req: true field carries the `None` the parser stored for it.
SplitFieldSpecs(i) ==
    { [req |-> TRUE, default |-> NoneExpr, name |-> FieldNames[i]] } \cup
    { [req |-> FALSE, default |-> LitExpr(v), name |-> FieldNames[i]] : v \in Values }

\* declare_struct_and_builder! field specs: { spec: name: ty = <Option expr> }.
NoSplitFieldSpecs(i) ==
    { [default |-> NoneExpr, name |-> FieldNames[i]] } \cup
    { [default |-> SomeExpr(v), name |-> FieldNames[i]] : v \in Values }

\* The field lists of n entries handed to impl_builder!.
RECURSIVE SplitFieldLists(_)
SplitFieldLists(n) ==
    IF n = 0 THEN { <<>> }
    ELSE { Append(fs, f) : fs \in SplitFieldLists(n - 1), f \in SplitFieldSpecs(n) }

\* The field lists of n entries handed to declare_struct_and_builder!.
RECURSIVE NoSplitFieldLists(_)
NoSplitFieldLists(n) ==
    IF n = 0 THEN { <<>> }
    ELSE { Append(fs, f) : fs \in NoSplitFieldLists(n - 1), f \in NoSplitFieldSpecs(n) }

\* Assertions are written as assert!(...) statements over the field names
\* (lib.rs module docs, "Assertions"); the one on field i is assert!(f >= 1).
AssertionPool(n) == { [f |-> i, op |-> "ge"] : i \in 1..n }

\* Assertion lists over n fields: at most MaxAsserts different assertions.
RECURSIVE AssertionListsOfLen(_, _)
AssertionListsOfLen(n, k) ==
    IF k = 0 THEN { <<>> }
    ELSE { Append(as, a) : as \in AssertionListsOfLen(n, k - 1), a \in AssertionPool(n) }

AssertionLists(n) ==
    { as \in UNION { AssertionListsOfLen(n, k) : k \in 0..MaxAsserts } :
        \A i, j \in 1..Len(as) : as[i] = as[j] => i = j }

\* An assertion whose predicate can itself panic: assert!(1 / f >= 1) divides
\* by zero for f = 0.  The two assertions over the first field.
FirstFieldPool == { [f |-> 1, op |-> "ge"], [f |-> 1, op |-> "div"] }

\* The lists of different assertions over the first field.
FirstFieldAssertionLists(n) ==
    IF n = 0 THEN { <<>> }
    ELSE { <<>> } \cup { <<a>> : a \in FirstFieldPool }
         \cup { p \in FirstFieldPool \X FirstFieldPool : p[1] # p[2] }

\* Evaluating the statement assert!(pred): it completes, or assert! panics on
\* a false predicate, or the predicate panics before assert! sees a value.
Eval(a, bind) ==
    LET x == bind[FieldNames[a.f]]
    IN IF a.op = "div"
       THEN IF x = 0 THEN "panic" ELSE IF x = 1 THEN "true" ELSE "false"
       ELSE IF x >= 1 THEN "true" ELSE "false"

\* The statement assert!(...) completes without a panic.
Holds(a, bind) ==
    IF a.op = "ge" THEN bind[FieldNames[a.f]] >= 1 ELSE bind[FieldNames[a.f]] = 1

\* The tokens of the predicate.
PredicateText(a) ==
    IF a.op = "div" THEN "1 / " \o FieldNames[a.f] \o " >= 1"
    ELSE FieldNames[a.f] \o " >= 1"

\* stringify!($ASSERTION): the tokens of the assertion expression.
Stringify(a) == "assert!(" \o PredicateText(a) \o ")"

\* The panic message of the statement: that of assert! on a false predicate,
\* or that of the division when the predicate panics.
AssertPanicMsg(a) == "assertion failed: " \o PredicateText(a)

DividePanicMsg == "attempt to divide by zero"

\* The message of the panic the statement ends in under the bindings.
PanicMsg(a, bind) ==
    IF Eval(a, bind) = "panic" THEN DividePanicMsg ELSE AssertPanicMsg(a)

NameSet(fs) == { fs[i].name : i \in 1..Len(fs) }

NoResult ==
    [kind |-> "none", rec |-> <<>>, msg |-> "", unwrapped |-> 0, evaluated |-> 0]
NoBuilder == [st |-> "none", slots |-> <<>>]
NoCall == [op |-> "none", self |-> "", ret |-> ""]
NoTwin == [builder |-> NoBuilder, result |-> NoResult]
\* The record of earlier build() calls: whether one of them failed, and what
\* the call just before returned when that call was a build().  It is kept
\* only where `on` is set.
NoHistory == [on |-> FALSE, failed |-> FALSE, prev |-> NoResult]
NewHistory == [on |-> TRUE, failed |-> FALSE, prev |-> NoResult]
Record(h, failed, prev) ==
    IF h.on THEN [on |-> TRUE, failed |-> failed, prev |-> prev] ELSE h

NoGen == [params |-> <<>>, assignments |-> <<>>, setters |-> <<>>]

\* The values of the parsing variables while only the builder is exercised.
NoInput == [purpose |-> "", metas |-> <<>>, pub |-> FALSE, mode |-> "", body |-> <<>>,
            assertions |-> <<>>]
NoParser == [state |-> "idle", purpose |-> "", spec |-> <<>>, vis |-> <<>>, meta |-> <<>>,
             mode |-> "", mandatory_fields |-> <<>>, optional_fields |-> <<>>,
             field_wip |-> <<>>, parser_wip |-> <<>>, assertions |-> <<>>]
NoOutput == [declare_call |-> <<>>, impl_call |-> <<>>, struct |-> <<>>,
             builder_struct |-> <<>>, impl |-> "none"]


(***************************************************************************)
(* impl_builder! @constructor: one rewriting step per field spec, threading *)
(* the accumulated params and assignments (impl_builder.rs 5-104).          *)
(***************************************************************************)

\* Variant: the req: false rule written with the body of the req: true rule.
ConstructorReqFalse_AsParam(acc, f) ==
    [params |-> Append(acc.params, f.name),
     assignments |-> Append(acc.assignments,
                            [name |-> f.name, src |-> "param", expr |-> f.default])]

\* req: false -- no parameter, the slot is assigned Some(default).
ConstructorReqFalse(acc, f) ==
    [params |-> acc.params,
     assignments |-> Append(acc.assignments,
                            [name |-> f.name, src |-> "default", expr |-> f.default])]

\* Variant: the new parameter is put in front of the accumulated ones.
ConstructorReqTrue_Prepend(acc, f) ==
    [params |-> <<f.name>> \o acc.params,
     assignments |-> Append(acc.assignments,
                            [name |-> f.name, src |-> "param", expr |-> NoneExpr])]

\* Variant: the slot of a mandatory field is assigned the stored `None`.
ConstructorReqTrue_StoredDefault(acc, f) ==
    [params |-> Append(acc.params, f.name),
     assignments |-> Append(acc.assignments,
                            [name |-> f.name, src |-> "option", expr |-> NoneExpr])]

\* req: true -- a parameter named like the field, the slot is assigned Some(param).
ConstructorReqTrue(acc, f) ==
    [params |-> Append(acc.params, f.name),
     assignments |-> Append(acc.assignments,
                            [name |-> f.name, src |-> "param", expr |-> NoneExpr])]

RECURSIVE Constructor(_, _)
Constructor(acc, fs) ==
    IF fs = <<>> THEN acc
    ELSE IF Head(fs).req THEN Constructor(ConstructorReqTrue(acc, Head(fs)), Tail(fs))
    ELSE Constructor(ConstructorReqFalse(acc, Head(fs)), Tail(fs))

\* Variant: a setter for every field.
SetterRule_Always(f) == <<f.name>>

\* impl_builder! @setter: a setter for a req: false field, nothing for req: true.
SetterRule(f) == IF f.req THEN <<>> ELSE <<f.name>>

RECURSIVE Setters(_)
Setters(fs) ==
    IF fs = <<>> THEN <<>> ELSE SetterRule(Head(fs)) \o Setters(Tail(fs))

\* Variant: the assignment of the first field is left out of new.
ImplBuilder_SkipFirst(fs) ==
    LET c == Constructor([params |-> <<>>, assignments |-> <<>>], fs)
    IN [params |-> c.params,
        assignments |-> IF c.assignments = <<>> THEN <<>> ELSE Tail(c.assignments),
        setters |-> Setters(fs)]

\* The impl block impl_builder! expands to.
ImplBuilder(fs) ==
    LET c == Constructor([params |-> <<>>, assignments |-> <<>>], fs)
    IN [params |-> c.params, assignments |-> c.assignments, setters |-> Setters(fs)]

\* Variant: new() leaves every slot None whatever default was written.
DeclareStructAndBuilder_AllNone(fs) ==
    [params |-> <<>>,
     assignments |-> [i \in 1..Len(fs) |->
                        [name |-> fs[i].name, src |-> "option", expr |-> NoneExpr]],
     setters |-> [i \in 1..Len(fs) |-> fs[i].name]]

\* The impl block declare_struct_and_builder! expands to: new() takes no
\* parameter and assigns the written default expression; every field has a setter.
DeclareStructAndBuilder(fs) ==
    [params |-> <<>>,
     assignments |-> [i \in 1..Len(fs) |->
                        [name |-> fs[i].name, src |-> "option", expr |-> fs[i].default]],
     setters |-> [i \in 1..Len(fs) |-> fs[i].name]]

(***************************************************************************)
(* The generated methods.                                                  *)
(***************************************************************************)

IndexOf(seq, x) == CHOOSE i \in 1..Len(seq) : seq[i] = x

\* Right-hand side of one assignment in the body of new.
EvalAssignment(a, params, as) ==
    IF a.src = "param" THEN Some(as[IndexOf(params, a.name)])
    ELSE IF a.src = "default" THEN Some(EvalExpr(a.expr))
    ELSE EvalExpr(a.expr)

\* Body of new: the struct literal built from the assignments.
NewBuilder(g, as) ==
    [st |-> "live",
     slots |-> [n \in { g.assignments[i].name : i \in 1..Len(g.assignments) } |->
                  EvalAssignment(g.assignments[IndexOf([i \in 1..Len(g.assignments) |->
                                                          g.assignments[i].name], n)],
                                 g.params, as)]]

\* Variant: every setter takes the builder by value.
SetterSelf_ByValue(v) == "mut self"

\* `pub fn $F_NAME(&mut self, value: $F_TY) -> &mut Self` for non_consuming,
\* `pub fn $F_NAME(mut self, value: $F_TY) -> Self` for consuming.
SetterSelf(v) == IF v = "non_consuming" THEN "&mut self" ELSE "mut self"

SetterReturn(v) == IF v = "non_consuming" THEN "&mut Self" ELSE "Self"

\* `pub fn build(&self)` for non_consuming, `pub fn build(self)` for consuming.
BuildSelf(v) == IF v = "non_consuming" THEN "&self" ELSE "self"

\* What build returns: Result<$STRUCT, &'static str> or $STRUCT.
BuildReturn(p) == IF p = "data" THEN "Result" ELSE "Struct"

\* A self parameter taken by value moves the builder out of the caller's binding.
Moves(self) == self \in {"self", "mut self"}

\* Variant: the setter returns self without the assignment.
SetterBody_NoAssign(b, n, v) == b

\* Variant: the setter writes the value into every slot.
SetterBody_AllSlots(b, n, v) == [b EXCEPT !.slots = [k \in DOMAIN b.slots |-> Some(v)]]

\* Body of a setter: self.f = Some(value); self
SetterBody(b, n, v) == [b EXCEPT !.slots[n] = Some(v)]

\* Index of the first field whose slot is None, 0 if there is none.
FirstAbsent(fs, slots) ==
    IF \E i \in 1..Len(fs) : slots[fs[i].name] = None
    THEN CHOOSE i \in 1..Len(fs) :
            /\ slots[fs[i].name] = None
            /\ \A j \in 1..(i - 1) : slots[fs[j].name] # None
    ELSE 0

\* The bindings `let f = self.f.clone().unwrap();` introduces.
Bindings(fs, slots) == [n \in NameSet(fs) |-> Unwrap(slots[n])]

\* Variant: the assertions are tried from the last to the first.
FirstFailed_Last(as, bind) ==
    IF \E i \in 1..Len(as) : ~Holds(as[i], bind)
    THEN CHOOSE i \in 1..Len(as) :
            /\ ~Holds(as[i], bind)
            /\ \A j \in (i + 1)..Len(as) : Holds(as[j], bind)
    ELSE 0

\* Variant: the Err is produced whatever catch_unwind returned.
FirstFailed_Always(as, bind) == IF Len(as) > 0 THEN 1 ELSE 0

\* Index of the first assertion that panics under the bindings, 0 if none does.
FirstFailed(as, bind) ==
    IF \E i \in 1..Len(as) : ~Holds(as[i], bind)
    THEN CHOOSE i \in 1..Len(as) :
            /\ ~Holds(as[i], bind)
            /\ \A j \in 1..(i - 1) : Holds(as[j], bind)
    ELSE 0

UnwrapPanicMsg == "called Option::unwrap() on a None value"

\* Variant: the message without the quotes around the assertion text.
AssertionErrMsg_NoQuotes(a) == "assertion failed: " \o Stringify(a)

\* concat!("assertion failed: '", stringify!($ASSERTION), "'")
AssertionErrMsg(a) == "assertion failed: '" \o Stringify(a) \o "'"

\* concat!("Must pass argument for field: '", stringify!($F_NAME), "'")
MustPassMsg(n) == "Must pass argument for field: '" \o n \o "'"

\* `let f = self.f.unwrap();` for every field: panics at the first None slot.
UnwrapPanic(fs, slots) ==
    [kind |-> "panic", rec |-> <<>>, msg |-> UnwrapPanicMsg,
     unwrapped |-> FirstAbsent(fs, slots) - 1, evaluated |-> 0]

\* Variant: the outcome of catch_unwind is dropped.
CatchUnwindAssertions_Unchecked(fs, as, bind) ==
    [kind |-> "Ok", rec |-> bind, msg |-> "", unwrapped |-> Len(fs), evaluated |-> Len(as)]

\* Variant: only the panic of assert! is caught; a panic of the predicate
\* itself leaves build.
CatchUnwindAssertions_AssertOnly(fs, as, bind) ==
    LET k == FirstFailed(as, bind)
    IN IF k # 0 /\ Eval(as[k], bind) = "panic"
       THEN [kind |-> "panic", rec |-> <<>>, msg |-> PanicMsg(as[k], bind),
             unwrapped |-> Len(fs), evaluated |-> k]
       ELSE IF k # 0
       THEN [kind |-> "Err", rec |-> <<>>, msg |-> "assertion failed: '" \o Stringify(as[k]) \o "'",
             unwrapped |-> Len(fs), evaluated |-> k]
       ELSE [kind |-> "Ok", rec |-> bind, msg |-> "",
             unwrapped |-> Len(fs), evaluated |-> Len(as)]

\* try!(catch_unwind(|| { $ASSERTION; }).or(Err(...))) for every assertion, then Ok.
CatchUnwindAssertions(fs, as, bind) ==
    LET k == FirstFailed(as, bind)
    IN IF k # 0
       THEN [kind |-> "Err", rec |-> <<>>, msg |-> AssertionErrMsg(as[k]),
             unwrapped |-> Len(fs), evaluated |-> k]
       ELSE [kind |-> "Ok", rec |-> bind, msg |-> "",
             unwrapped |-> Len(fs), evaluated |-> Len(as)]

\* Variant: the assertions are left out of the object build.
PlainAssertions_Skipped(fs, as, bind) ==
    [kind |-> "value", rec |-> bind, msg |-> "",
     unwrapped |-> Len(fs), evaluated |-> 0]

\* `$ASSERTION;` for every assertion, then the struct itself.
PlainAssertions(fs, as, bind) ==
    LET k == FirstFailed(as, bind)
    IN IF k # 0
       THEN [kind |-> "panic", rec |-> <<>>, msg |-> PanicMsg(as[k], bind),
             unwrapped |-> Len(fs), evaluated |-> k]
       ELSE [kind |-> "value", rec |-> bind, msg |-> "",
             unwrapped |-> Len(fs), evaluated |-> Len(as)]

\* impl_builder! purpose: data -- build returns Result<$STRUCT, &'static str>.
BuildData(fs, as, slots) ==
    IF FirstAbsent(fs, slots) # 0 THEN UnwrapPanic(fs, slots)
    ELSE CatchUnwindAssertions(fs, as, Bindings(fs, slots))

\* impl_builder! purpose: object -- build returns $STRUCT.
BuildObject(fs, as, slots) ==
    IF FirstAbsent(fs, slots) # 0 THEN UnwrapPanic(fs, slots)
    ELSE PlainAssertions(fs, as, Bindings(fs, slots))

\* Variant: the assertions are run before the slots are looked at.
BuildNoSplit_AssertFirst(fs, as, slots) ==
    LET k == FirstAbsent(fs, slots)
    IN IF k # 0
       THEN [kind |-> "Err", rec |-> <<>>, msg |-> MustPassMsg(fs[k].name),
             unwrapped |-> k - 1, evaluated |-> Len(as)]
       ELSE CatchUnwindAssertions(fs, as, Bindings(fs, slots))

\* Variant: the slots are unwrapped as in impl_builder!.
BuildNoSplit_Unwrap(fs, as, slots) == BuildData(fs, as, slots)

\* declare_struct_and_builder! -- build returns Result, a None slot is an Err.
BuildNoSplit(fs, as, slots) ==
    LET k == FirstAbsent(fs, slots)
    IN IF k # 0
       THEN [kind |-> "Err", rec |-> <<>>, msg |-> MustPassMsg(fs[k].name),
             unwrapped |-> k - 1, evaluated |-> 0]
       ELSE CatchUnwindAssertions(fs, as, Bindings(fs, slots))

BuildBody(fs, as, slots) ==
    IF ~split THEN BuildNoSplit(fs, as, slots)
    ELSE IF purpose = "data" THEN BuildData(fs, as, slots)
    ELSE BuildObject(fs, as, slots)

\* Variant: build leaves the builder in place whatever its self parameter.
AfterBuild_Kept(b, r) == b

\* Variant: a build that returns Err has emptied the slots.
AfterBuild_ClearedOnErr(b, r) ==
    IF variant = "consuming" \/ r.kind = "panic" THEN [b EXCEPT !.st = "gone"]
    ELSE IF r.kind = "Err" THEN [b EXCEPT !.slots = [n \in DOMAIN b.slots |-> None]]
    ELSE b

\* Variant: build takes the values out of the slots.
AfterBuild_Taken(b, r) ==
    IF variant = "consuming" \/ r.kind = "panic" THEN [b EXCEPT !.st = "gone"]
    ELSE [b EXCEPT !.slots = [n \in DOMAIN b.slots |-> None]]

\* What is left of the builder the build was called on: build(&self) leaves it
\* in place, build(self) moves it, and a panic unwinds through its owner.
AfterBuild(b, r) ==
    IF variant = "consuming" \/ r.kind = "panic" THEN [b EXCEPT !.st = "gone"] ELSE b

(***************************************************************************)
(* Spec: the macro input, its expansion, and calls on the generated builder.*)
(***************************************************************************)

Init ==
    /\ split \in BOOLEAN
    /\ variant \in {"non_consuming", "consuming"}
    /\ IF split
       THEN /\ purpose \in {"data", "object"}
            /\ fields \in UNION { SplitFieldLists(n) : n \in 0..MaxFields }
       ELSE /\ purpose = "data"
            /\ fields \in UNION { NoSplitFieldLists(n) : n \in 0..MaxFields }
    /\ assertions \in AssertionLists(Len(fields))
    /\ phase = "input"
    /\ gen = NoGen
    /\ builder = NoBuilder
    /\ args = <<>>
    /\ lastSet = <<>>
    /\ result = NoResult
    /\ call = NoCall
    /\ twin = NoTwin
    /\ history = NoHistory
    /\ input = NoInput
    /\ parser = NoParser
    /\ output = NoOutput

\* The macro invocation is expanded.
Expand ==
    /\ phase = "input"
    /\ phase' = "expanded"
    /\ gen' = IF split THEN ImplBuilder(fields) ELSE DeclareStructAndBuilder(fields)
    /\ UNCHANGED <<purpose, variant, split, fields, assertions, builder, args,
                   lastSet, result, call, twin, history>>
    /\ UNCHANGED parseVars

\* Builder::new(as)
New ==
    /\ phase = "expanded"
    /\ \E as \in [1..Len(gen.params) -> Values] :
          /\ builder' = NewBuilder(gen, as)
          /\ args' = as
    /\ lastSet' = [n \in NameSet(fields) |-> None]
    /\ result' = NoResult
    /\ call' = [op |-> "new", self |-> "", ret |-> "Builder"]
    /\ history' = Record(history, FALSE, NoResult)
    /\ UNCHANGED <<purpose, variant, split, fields, assertions, phase, gen, twin>>
    /\ UNCHANGED parseVars

\* builder.f(v) for a generated setter f
Setter ==
    /\ builder.st = "live"
    /\ \E i \in 1..Len(gen.setters), v \in Values :
          /\ builder' = SetterBody(builder, gen.setters[i], v)
          /\ lastSet' = [lastSet EXCEPT ![gen.setters[i]] = Some(v)]
    /\ result' = NoResult
    /\ call' = [op |-> "setter", self |-> SetterSelf(variant), ret |-> SetterReturn(variant)]
    /\ history' = Record(history, history.failed, NoResult)
    /\ UNCHANGED <<purpose, variant, split, fields, assertions, phase, gen, args, twin>>
    /\ UNCHANGED parseVars

\* builder.build()
Build ==
    /\ builder.st = "live"
    /\ result' = BuildBody(fields, assertions, builder.slots)
    /\ builder' = AfterBuild(builder, result')
    /\ call' = [op |-> "build", self |-> BuildSelf(variant), ret |-> BuildReturn(purpose)]
    /\ history' = Record(history, history.failed \/ result'.kind \in {"Err", "panic"},
                          result)
    /\ UNCHANGED <<purpose, variant, split, fields, assertions, phase, gen, args,
                   lastSet, twin>>
    /\ UNCHANGED parseVars

Next == Expand \/ New \/ Setter \/ Build

Spec == Init /\ [][Next]_vars

(***************************************************************************)
(* PanicSpec: the builders of impl_builder!, with assertions over the first *)
(* field whose predicate can panic.                                         *)
(***************************************************************************)

PanicInit ==
    /\ split = TRUE
    /\ variant \in {"non_consuming", "consuming"}
    /\ purpose \in {"data", "object"}
    /\ fields \in UNION { SplitFieldLists(n) : n \in 0..MaxFields }
    /\ assertions \in FirstFieldAssertionLists(Len(fields))
    /\ phase = "input"
    /\ gen = NoGen
    /\ builder = NoBuilder
    /\ args = <<>>
    /\ lastSet = <<>>
    /\ result = NoResult
    /\ call = NoCall
    /\ twin = NoTwin
    /\ history = NoHistory
    /\ input = NoInput
    /\ parser = NoParser
    /\ output = NoOutput

PanicSpec == PanicInit /\ [][Next]_vars

(***************************************************************************)
(* RetrySpec: a non-consuming builder is built again and again, with the    *)
(* outcome of its earlier build() calls on record.                          *)
(***************************************************************************)

RetryInit ==
    /\ split \in BOOLEAN
    /\ variant = "non_consuming"
    /\ IF split
       THEN /\ purpose \in {"data", "object"}
            /\ fields \in UNION { SplitFieldLists(n) : n \in 0..MaxFields }
       ELSE /\ purpose = "data"
            /\ fields \in UNION { NoSplitFieldLists(n) : n \in 0..MaxFields }
    /\ assertions \in { as \in FirstFieldAssertionLists(Len(fields)) : Len(as) <= 1 }
    /\ phase = "input"
    /\ gen = NoGen
    /\ builder = NoBuilder
    /\ args = <<>>
    /\ lastSet = <<>>
    /\ result = NoResult
    /\ call = NoCall
    /\ twin = NoTwin
    /\ history = NewHistory
    /\ input = NoInput
    /\ parser = NoParser
    /\ output = NoOutput

RetrySpec == RetryInit /\ [][Next]_vars


(***************************************************************************)
(* TwinSpec: new is called a second time with the same arguments; the two   *)
(* builders are then used side by side.                                     *)
(***************************************************************************)

TwinInit ==
    /\ split = TRUE
    /\ variant \in {"non_consuming", "consuming"}
    /\ purpose \in {"data", "object"}
    /\ fields \in UNION { SplitFieldLists(n) : n \in 0..MaxFields }
    /\ assertions \in { as \in AssertionLists(Len(fields)) : Len(as) <= MaxTwinAsserts }
    /\ phase = "input"
    /\ gen = NoGen
    /\ builder = NoBuilder
    /\ args = <<>>
    /\ lastSet = <<>>
    /\ result = NoResult
    /\ call = NoCall
    /\ twin = NoTwin
    /\ history = NoHistory
    /\ input = NoInput
    /\ parser = NoParser
    /\ output = NoOutput

\* let first = Builder::new(as);
FirstNew ==
    /\ twin.builder.st = "none"
    /\ New

\* Variant: the second builder is a copy of the first as it is now.
SecondNew_Copy(g, as, first) == [first EXCEPT !.st = "live"]

\* The second call evaluates the body of new again.
SecondNew(g, as, first) == NewBuilder(g, as)

\* let second = Builder::new(as);
TwinNew ==
    /\ builder.st # "none"
    /\ twin.builder.st = "none"
    /\ twin' = [builder |-> SecondNew(gen, args, builder), result |-> NoResult]
    /\ UNCHANGED <<purpose, variant, split, fields, assertions, phase, gen, builder,
                   args, lastSet, result, call, history>>
    /\ UNCHANGED parseVars

\* second.build()
TwinBuild ==
    /\ twin.builder.st = "live"
    /\ LET r == BuildBody(fields, assertions, twin.builder.slots)
       IN twin' = [builder |-> AfterBuild(twin.builder, r), result |-> r]
    /\ UNCHANGED <<purpose, variant, split, fields, assertions, phase, gen, builder,
                   args, lastSet, result, call, history>>
    /\ UNCHANGED parseVars

TwinNext == Expand \/ FirstNew \/ Setter \/ Build \/ TwinNew \/ TwinBuild

TwinSpec == TwinInit /\ [][TwinNext]_vars


(***************************************************************************)
(* ParseSpec: data_struct! / object_struct! hand their tokens to            *)
(* parse_struct!, which rewrites itself one rule at a time.                 *)
(***************************************************************************)

\* A raw entry at position i of the field body: an annotation #[...], or a
\* field `[pub] name: ty [= default]` followed or not by a comma.  The
\* written default is `None`, `Some(d)`, a bare expression, or left out.
RawMeta(i) == [kind |-> "meta", id |-> i, pub |-> FALSE, name |-> "",
               default |-> "", comma |-> FALSE]

RawFields(i) ==
    { [kind |-> "field", id |-> i, pub |-> p, name |-> FieldNames[i],
       default |-> d, comma |-> c] :
         p \in BOOLEAN, d \in {"None", "Some", "Bare", "Absent"}, c \in BOOLEAN }

RawItems(i) == { RawMeta(i) } \cup RawFields(i)

\* The entries a rule of parse_struct! consumes: an annotation, or a field
\* written `= None,` or `= Some(d),`.
WellFormedItems(i) ==
    { r \in RawItems(i) : r.kind = "field" => (r.default \in {"None", "Some"} /\ r.comma) }

RECURSIVE WellFormedBodies(_)
WellFormedBodies(n) ==
    IF n = 0 THEN { <<>> }
    ELSE { Append(b, r) : b \in WellFormedBodies(n - 1), r \in WellFormedItems(n) }

\* Field bodies of n entries.  No rule looks behind an entry it cannot
\* consume, so only the last entry ranges over the malformed shapes too (a
\* default that is neither None nor Some(..), no default, no comma).
RawBodies(n) ==
    IF n = 0 THEN { <<>> }
    ELSE { Append(b, r) : b \in WellFormedBodies(n - 1), r \in RawItems(n) }

\* The mode marker is a single token tree: `->`, `=>`, or something else.
Modes == {"->", "=>", "-"}

\* Inputs of at most MaxRaw entries: k item annotations and a field body.
Inputs ==
    UNION { [purpose : {"data", "object"},
             metas : { [i \in 1..k |-> i] },
             pub : BOOLEAN,
             mode : Modes,
             body : UNION { RawBodies(n) : n \in 0..(MaxRaw - k) },
             assertions : { <<>>, <<"assert!(a >= 1)">> }] : k \in 0..MaxRaw }

\* data_struct! / object_struct!: parse_struct! { purpose: .., meta: [], spec: .. }
EntryMacro(in) ==
    [state |-> "ParsingItemMetadata", purpose |-> in.purpose, spec |-> in.metas,
     vis |-> <<>>, meta |-> <<>>, mode |-> "", mandatory_fields |-> <<>>,
     optional_fields |-> <<>>, field_wip |-> <<>>, parser_wip |-> <<>>,
     assertions |-> <<>>]

ParseInit ==
    /\ input \in Inputs
    /\ parser = EntryMacro(input)
    /\ output = NoOutput
    /\ purpose = ""
    /\ variant = ""
    /\ split = FALSE
    /\ fields = <<>>
    /\ assertions = <<>>
    /\ phase = "idle"
    /\ gen = NoGen
    /\ builder = NoBuilder
    /\ args = <<>>
    /\ lastSet = <<>>
    /\ result = NoResult
    /\ call = NoCall
    /\ twin = NoTwin
    /\ history = NoHistory

\* Variant: the visibility of the rule is not carried over.
Classified_NoVis(visibility, raw, wip) ==
    [vis |-> <<>>, meta |-> wip, name |-> raw.name, default |-> raw.default]

\* The classified field a field rule appends.
Classified(visibility, raw, wip) ==
    [vis |-> visibility, meta |-> wip, name |-> raw.name, default |-> raw.default]

\* Rule 1: `spec: #[$NEXT_META] $( $SPEC )+` -- one item annotation is moved
\* to the end of meta.
ItemMetaMatches == parser.state = "ParsingItemMetadata" /\ parser.spec # <<>>

\* Variant: the annotation is put in front of meta.
ParseItemMeta_Prepend ==
    /\ ItemMetaMatches
    /\ parser' = [parser EXCEPT !.meta = <<Head(parser.spec)>> \o @,
                                !.spec = Tail(@)]
    /\ UNCHANGED <<input, output>>
    /\ UNCHANGED builderVars

ParseItemMeta ==
    /\ ItemMetaMatches
    /\ parser' = [parser EXCEPT !.meta = Append(@, Head(parser.spec)),
                                !.spec = Tail(@)]
    /\ UNCHANGED <<input, output>>
    /\ UNCHANGED builderVars

\* What both header rules expand to.
HeaderExpansion(visibility) ==
    [parser EXCEPT !.state = "ParsingFields",
                   !.vis = visibility,
                   !.mode = input.mode,
                   !.mandatory_fields = <<>>,
                   !.optional_fields = <<>>,
                   !.field_wip = <<>>,
                   !.parser_wip = input.body,
                   !.assertions = input.assertions]

\* Rule 2: `spec: pub $BUILDER $MODE $STRUCT { .. } [, assertions: { .. }]`
HeaderPubMatches ==
    parser.state = "ParsingItemMetadata" /\ parser.spec = <<>> /\ input.pub

ParseHeaderPub ==
    /\ ~ItemMetaMatches
    /\ HeaderPubMatches
    /\ parser' = HeaderExpansion(<<"pub">>)
    /\ UNCHANGED <<input, output>>
    /\ UNCHANGED builderVars

\* Rule 3: `spec: $BUILDER $MODE $STRUCT { .. } [, assertions: { .. }]`
HeaderPrivateMatches ==
    parser.state = "ParsingItemMetadata" /\ parser.spec = <<>> /\ ~input.pub

ParseHeaderPrivate ==
    /\ ~ItemMetaMatches /\ ~HeaderPubMatches
    /\ HeaderPrivateMatches
    /\ parser' = HeaderExpansion(<<>>)
    /\ UNCHANGED <<input, output>>
    /\ UNCHANGED builderVars

InFields == parser.state = "ParsingFields"

\* Rule 4: `parser_wip: { #[$FIELD_WIP_NEXT_META] $( $SPEC_TAIL )+ }` -- one
\* field annotation is moved to the end of field_wip.
FieldMetaMatches ==
    /\ InFields
    /\ Len(parser.parser_wip) >= 2
    /\ Head(parser.parser_wip).kind = "meta"

\* Variant: the annotation is put back behind the remaining entries.
ParseFieldMeta_Requeue ==
    /\ FieldMetaMatches
    /\ parser' = [parser EXCEPT !.parser_wip = Append(Tail(@), Head(@))]
    /\ UNCHANGED <<input, output>>
    /\ UNCHANGED builderVars

\* Variant: the annotation is put in front of the accumulated ones.
ParseFieldMeta_Prepend ==
    /\ FieldMetaMatches
    /\ parser' = [parser EXCEPT !.field_wip = <<Head(parser.parser_wip).id>> \o @,
                                !.parser_wip = Tail(@)]
    /\ UNCHANGED <<input, output>>
    /\ UNCHANGED builderVars

ParseFieldMeta ==
    /\ FieldMetaMatches
    /\ parser' = [parser EXCEPT !.field_wip = Append(@, Head(parser.parser_wip).id),
                                !.parser_wip = Tail(@)]
    /\ UNCHANGED <<input, output>>
    /\ UNCHANGED builderVars

\* Variant: the pattern without the comma behind the default.
FieldHeadMatches_NoComma(isPub, default) ==
    /\ InFields
    /\ parser.parser_wip # <<>>
    /\ Head(parser.parser_wip).kind = "field"
    /\ Head(parser.parser_wip).pub = isPub
    /\ Head(parser.parser_wip).default = default

\* The head of parser_wip is `[pub] $F_NAME: $F_TY = <default>,`
FieldHeadMatches(isPub, default) ==
    /\ InFields
    /\ parser.parser_wip # <<>>
    /\ Head(parser.parser_wip).kind = "field"
    /\ Head(parser.parser_wip).pub = isPub
    /\ Head(parser.parser_wip).default = default
    /\ Head(parser.parser_wip).comma

\* Variant: the plain pattern also matches an entry that starts with pub.
MandatoryMatches_AnyVis == FieldHeadMatches(FALSE, "None") \/ FieldHeadMatches(TRUE, "None")

\* Rule 5: `$F_NAME: $F_TY = None, ..` -- a private mandatory field.
MandatoryMatches == FieldHeadMatches(FALSE, "None")

\* Variant: the entry is consumed without being added to mandatory_fields.
ParseMandatoryField_Drop ==
    /\ ~FieldMetaMatches
    /\ MandatoryMatches
    /\ parser' = [parser EXCEPT !.field_wip = <<>>, !.parser_wip = Tail(@)]
    /\ UNCHANGED <<input, output>>
    /\ UNCHANGED builderVars

ParseMandatoryField ==
    /\ ~FieldMetaMatches
    /\ MandatoryMatches
    /\ parser' = [parser EXCEPT
                    !.mandatory_fields =
                        Append(@, Classified(<<>>, Head(parser.parser_wip), parser.field_wip)),
                    !.field_wip = <<>>,
                    !.parser_wip = Tail(@)]
    /\ UNCHANGED <<input, output>>
    /\ UNCHANGED builderVars

\* Rule 6: `$F_NAME: $F_TY = Some($F_DEFAULT), ..` -- a private optional field.
OptionalMatches == FieldHeadMatches(FALSE, "Some")

\* Variant: the field is put in front of optional_fields.
ParseOptionalField_Prepend ==
    /\ ~FieldMetaMatches /\ ~MandatoryMatches
    /\ OptionalMatches
    /\ parser' = [parser EXCEPT
                    !.optional_fields =
                        <<Classified(<<>>, Head(parser.parser_wip), parser.field_wip)>> \o @,
                    !.field_wip = <<>>,
                    !.parser_wip = Tail(@)]
    /\ UNCHANGED <<input, output>>
    /\ UNCHANGED builderVars

ParseOptionalField ==
    /\ ~FieldMetaMatches /\ ~MandatoryMatches
    /\ OptionalMatches
    /\ parser' = [parser EXCEPT
                    !.optional_fields =
                        Append(@, Classified(<<>>, Head(parser.parser_wip), parser.field_wip)),
                    !.field_wip = <<>>,
                    !.parser_wip = Tail(@)]
    /\ UNCHANGED <<input, output>>
    /\ UNCHANGED builderVars

\* Rule 7: `pub $F_NAME: $F_TY = None, ..` -- a public mandatory field.
PubMandatoryMatches == FieldHeadMatches(TRUE, "None")

\* Variant: the rule passes on an empty item annotation list.
ParsePubMandatoryField_DropsItemMeta ==
    /\ ~FieldMetaMatches /\ ~MandatoryMatches /\ ~OptionalMatches
    /\ PubMandatoryMatches
    /\ parser' = [parser EXCEPT
                    !.meta = <<>>,
                    !.mandatory_fields =
                        Append(@, Classified(<<"pub">>, Head(parser.parser_wip), parser.field_wip)),
                    !.field_wip = <<>>,
                    !.parser_wip = Tail(@)]
    /\ UNCHANGED <<input, output>>
    /\ UNCHANGED builderVars

ParsePubMandatoryField ==
    /\ ~FieldMetaMatches /\ ~MandatoryMatches /\ ~OptionalMatches
    /\ PubMandatoryMatches
    /\ parser' = [parser EXCEPT
                    !.mandatory_fields =
                        Append(@, Classified(<<"pub">>, Head(parser.parser_wip), parser.field_wip)),
                    !.field_wip = <<>>,
                    !.parser_wip = Tail(@)]
    /\ UNCHANGED <<input, output>>
    /\ UNCHANGED builderVars

\* Rule 8: `pub $F_NAME: $F_TY = Some($F_DEFAULT), ..` -- a public optional field.
PubOptionalMatches == FieldHeadMatches(TRUE, "Some")

ParsePubOptionalField ==
    /\ ~FieldMetaMatches /\ ~MandatoryMatches /\ ~OptionalMatches
    /\ ~PubMandatoryMatches
    /\ PubOptionalMatches
    /\ parser' = [parser EXCEPT
                    !.optional_fields =
                        Append(@, Classified(<<"pub">>, Head(parser.parser_wip), parser.field_wip)),
                    !.field_wip = <<>>,
                    !.parser_wip = Tail(@)]
    /\ UNCHANGED <<input, output>>
    /\ UNCHANGED builderVars

\* Variant: the terminal rule also matches when only annotations are left.
TerminalMatches_IgnoresMetas ==
    /\ InFields
    /\ \A i \in 1..Len(parser.parser_wip) : parser.parser_wip[i].kind = "meta"

\* Rule 9: `field_wip: { meta: [] }, parser_wip: {}` -- everything is
\* classified; impl_struct_and_builder! is invoked with the two lists.
TerminalMatches == InFields /\ parser.field_wip = <<>> /\ parser.parser_wip = <<>>

\* Variant: the terminal rule hands the tokens back to the first rules.
ParseTerminal_Reparse ==
    /\ TerminalMatches
    /\ parser' = [parser EXCEPT !.state = "ParsingItemMetadata"]
    /\ UNCHANGED <<input, output>>
    /\ UNCHANGED builderVars

ParseTerminal ==
    /\ TerminalMatches
    /\ parser' = [parser EXCEPT !.state = "Emit"]
    /\ UNCHANGED <<input, output>>
    /\ UNCHANGED builderVars

\* No rule of parse_struct! matches the invocation: the expansion fails.
ParseReject ==
    /\ InFields
    /\ ~FieldMetaMatches /\ ~MandatoryMatches /\ ~OptionalMatches
    /\ ~PubMandatoryMatches /\ ~PubOptionalMatches /\ ~TerminalMatches
    /\ parser' = [parser EXCEPT !.state = "Rejected"]
    /\ UNCHANGED <<input, output>>
    /\ UNCHANGED builderVars

(***************************************************************************)
(* impl_struct_and_builder!: one rule per mode marker; each expands to an   *)
(* invocation of declare_structs! and an invocation of impl_builder!.       *)
(***************************************************************************)

\* The fields handed to declare_structs!: $( mandatory )* $( optional )*
DeclareFields(man, opt) == man \o opt

\* Variant: both rules pass variant: non_consuming.
ImplBuilderCall_OneVariant(p, v) ==
    [keys |-> <<"purpose", "variant", "spec", "mandatory_fields", "optional_fields">>
                \o (IF p.assertions # <<>> THEN <<"assertions">> ELSE <<>>),
     purpose |-> p.purpose,
     variant |-> "non_consuming",
     mandatory_fields |-> [i \in 1..Len(p.mandatory_fields) |->
                              [name |-> p.mandatory_fields[i].name,
                               default |-> p.mandatory_fields[i].default]],
     optional_fields |-> [i \in 1..Len(p.optional_fields) |->
                             [name |-> p.optional_fields[i].name,
                              default |-> p.optional_fields[i].default]],
     assertions |-> p.assertions]

\* The invocation of impl_builder!, as the sequence of its top-level keys.
ImplBuilderCall(p, v) ==
    [keys |-> <<"purpose", "variant", "spec", "mandatory_fields", "optional_fields">>
                \o (IF p.assertions # <<>> THEN <<"assertions">> ELSE <<>>),
     purpose |-> p.purpose,
     variant |-> v,
     mandatory_fields |-> [i \in 1..Len(p.mandatory_fields) |->
                              [name |-> p.mandatory_fields[i].name,
                               default |-> p.mandatory_fields[i].default]],
     optional_fields |-> [i \in 1..Len(p.optional_fields) |->
                             [name |-> p.optional_fields[i].name,
                              default |-> p.optional_fields[i].default]],
     assertions |-> p.assertions]

\* Variant: the two markers exchanged.
ModeVariant_Swapped(m) == IF m = "->" THEN "consuming" ELSE "non_consuming"

\* `->` expands with variant: non_consuming, `=>` with variant: consuming.
ModeVariant(m) == IF m = "->" THEN "non_consuming" ELSE "consuming"

ImplStructAndBuilder ==
    /\ parser.state = "Emit"
    /\ parser.mode \in {"->", "=>"}
    /\ parser' = [parser EXCEPT !.state = "Expanding"]
    /\ output' = [output EXCEPT
                    !.declare_call =
                        <<[vis |-> parser.vis, meta |-> parser.meta, mode |-> parser.mode,
                           fields |-> DeclareFields(parser.mandatory_fields,
                                                    parser.optional_fields)]>>,
                    !.impl_call = <<ImplBuilderCall(parser, ModeVariant(parser.mode))>>]
    /\ UNCHANGED input
    /\ UNCHANGED builderVars

\* Neither `->` nor `=>`: no rule of impl_struct_and_builder! matches.
ImplStructAndBuilderReject ==
    /\ parser.state = "Emit"
    /\ parser.mode \notin {"->", "=>"}
    /\ parser' = [parser EXCEPT !.state = "Rejected"]
    /\ UNCHANGED <<input, output>>
    /\ UNCHANGED builderVars

\* declare_structs!: the record type and the builder type, field by field in
\* the order of the invocation.
StructDecl(c) ==
    [vis |-> c.vis, meta |-> c.meta,
     fields |-> [i \in 1..Len(c.fields) |->
                    [vis |-> c.fields[i].vis, meta |-> c.fields[i].meta,
                     name |-> c.fields[i].name, ty |-> "T"]]]

\* Variant: the builder's slots repeat the visibility of the fields.
BuilderDecl_WithVis(c) ==
    [vis |-> c.vis, meta |-> <<"doc: Auto-generated builder">>,
     fields |-> [i \in 1..Len(c.fields) |->
                    [vis |-> c.fields[i].vis, meta |-> c.fields[i].meta,
                     name |-> c.fields[i].name, ty |-> "Option<T>"]]]

\* The builder type: one private Option slot per field of the invocation.
BuilderDecl(c) ==
    [vis |-> c.vis, meta |-> <<"doc: Auto-generated builder">>,
     fields |-> [i \in 1..Len(c.fields) |->
                    [vis |-> <<>>, meta |-> c.fields[i].meta,
                     name |-> c.fields[i].name, ty |-> "Option<T>"]]]

DeclareStructs ==
    /\ parser.state = "Expanding"
    /\ output.declare_call # <<>>
    /\ output' = [output EXCEPT !.declare_call = <<>>,
                                !.struct = <<StructDecl(output.declare_call[1])>>,
                                !.builder_struct = <<BuilderDecl(output.declare_call[1])>>]
    /\ UNCHANGED <<input, parser>>
    /\ UNCHANGED builderVars

\* The top-level keys the purpose rules of impl_builder! accept.
ImplBuilderAccepts(c) ==
    \/ c.keys = <<"purpose", "variant", "spec", "fields">>
    \/ c.keys = <<"purpose", "variant", "spec", "fields", "assertions">>

\* The invocation of impl_builder! is matched against its rules.
ImplBuilderInvoke ==
    /\ parser.state = "Expanding"
    /\ output.impl_call # <<>>
    /\ output' = [output EXCEPT
                    !.impl_call = <<>>,
                    !.impl = IF ImplBuilderAccepts(output.impl_call[1])
                             THEN "expanded" ELSE "rejected"]
    /\ UNCHANGED <<input, parser>>
    /\ UNCHANGED builderVars

\* The rules of parse_struct! in the order they are written, which is the
\* order they are tried in.
HeaderRules == <<"pub header", "header">>

FieldRules == <<"annotation", "mandatory", "optional", "pub mandatory", "pub optional",
                "terminal">>

ParseNext ==
    \/ ParseItemMeta
    \/ ParseHeaderPub
    \/ ParseHeaderPrivate
    \/ ParseFieldMeta
    \/ ParseMandatoryField
    \/ ParseOptionalField
    \/ ParsePubMandatoryField
    \/ ParsePubOptionalField
    \/ ParseTerminal
    \/ ParseReject
    \/ ImplStructAndBuilder
    \/ ImplStructAndBuilderReject
    \/ DeclareStructs
    \/ ImplBuilderInvoke

ParseSpec == ParseInit /\ [][ParseNext]_vars

\* The compiler expands a macro invocation as long as there is one to expand.
ParseLiveSpec == ParseInit /\ [][ParseNext]_vars /\ WF_vars(ParseNext)

(***************************************************************************)
(* Vocabulary of the properties.                                           *)
(***************************************************************************)

\* build() was the last call on the current builder.
Built == result.kind # "none"

\* build() returned a record: Ok(record) or the record itself.
Success == result.kind \in {"Ok", "value"}

\* No setter was called since new.
NoSetterCalled == \A n \in DOMAIN lastSet : lastSet[n] = None

IsReq(f) == f.req

\* The fields of the split pipeline that are mandatory, in declaration order.
MandatoryFields == SelectSeq(fields, IsReq)

IsDefaulted(f) == ~f.req

DefaultedFields == SelectSeq(fields, IsDefaulted)

\* The constructor argument that belongs to the mandatory field at position i:
\* the k-th argument, where the field is the k-th mandatory one.
ArgFor(i) == args[Cardinality({ j \in 1..i : fields[j].req })]

\* The value the record field at position i is expected to hold.
Expected(i) ==
    IF fields[i].req THEN ArgFor(i)
    ELSE IF lastSet[fields[i].name] # None THEN lastSet[fields[i].name][1]
    ELSE fields[i].default.val

ExpectedBindings == [n \in NameSet(fields) |-> Expected(IndexOf([i \in 1..Len(fields) |-> fields[i].name], n))]

\* The assertions a binding violates, and the first of them.
ViolatedSet(bind) == { i \in 1..Len(assertions) : ~Holds(assertions[i], bind) }

FirstViolated(bind) ==
    CHOOSE i \in ViolatedSet(bind) : \A j \in ViolatedSet(bind) : i <= j

\* Every slot of the builder the build was called on was present.
AllPresent == \A i \in 1..Len(fields) : builder.slots[fields[i].name] # None

\* The written text of an assertion.
AssertionText(a) ==
    CASE a.f = 1 -> "assert!(a >= 1)"
      [] a.f = 2 -> "assert!(b >= 1)"
      [] a.f = 3 -> "assert!(c >= 1)"
      [] a.f = 4 -> "assert!(d >= 1)"
      [] OTHER -> "assert!(e >= 1)"

(***************************************************************************)
(* C2 (as stated): for every specification with only defaulted fields,     *)
(* new() followed immediately by build() succeeds and yields a record in   *)
(* which every field equals its declared default.                          *)
(***************************************************************************)
C2_Original ==
    (split /\ Built /\ NoSetterCalled /\ MandatoryFields = <<>>)
        => /\ Success
           /\ \A i \in 1..Len(fields) : result.rec[fields[i].name] = fields[i].default.val

\* C2 (amended): for every specification with only defaulted fields whose
\* declared defaults satisfy every assertion, new() followed immediately by
\* build() succeeds and yields a record in which every field equals its
\* declared default; when the defaults violate an assertion that build fails.
C2_DefaultsBuild ==
    (split /\ Built /\ NoSetterCalled /\ MandatoryFields = <<>>)
        => LET defaults == [n \in NameSet(fields) |->
                              fields[IndexOf([i \in 1..Len(fields) |-> fields[i].name], n)].default.val]
           IN IF ViolatedSet(defaults) = {}
              THEN /\ Success
                   /\ \A i \in 1..Len(fields) :
                         result.rec[fields[i].name] = fields[i].default.val
              ELSE ~Success

C2_Witness ==
    /\ split /\ Built /\ NoSetterCalled /\ Success
    /\ Len(fields) = 2 /\ MandatoryFields = <<>>
    /\ fields[1].default.val # fields[2].default.val
    /\ assertions # <<>>

(***************************************************************************)
(* C3 (as stated): for every specification with a mix of mandatory and     *)
(* defaulted fields, new(mandatory arguments) followed immediately by      *)
(* build() succeeds; each mandatory field holds its constructor argument   *)
(* and each optional field its declared default.                           *)
(***************************************************************************)
C3_Original ==
    (split /\ Built /\ NoSetterCalled /\ MandatoryFields # <<>> /\ DefaultedFields # <<>>)
        => /\ Success
           /\ \A i \in 1..Len(fields) :
                 result.rec[fields[i].name] =
                    IF fields[i].req THEN ArgFor(i) ELSE fields[i].default.val

\* C3 (amended): for every specification with a mix of mandatory and
\* defaulted fields, new(mandatory arguments) followed immediately by build()
\* succeeds provided the constructor arguments and the declared defaults
\* satisfy every assertion, and then each mandatory field holds its
\* constructor argument and each optional field its declared default;
\* otherwise that build fails.
C3_MandatoryArgsBuild ==
    (split /\ Built /\ NoSetterCalled /\ MandatoryFields # <<>> /\ DefaultedFields # <<>>)
        => IF ViolatedSet(ExpectedBindings) = {}
           THEN /\ Success
                /\ \A i \in 1..Len(fields) :
                      result.rec[fields[i].name] =
                         IF fields[i].req THEN ArgFor(i) ELSE fields[i].default.val
           ELSE ~Success

C3_Witness ==
    /\ split /\ Built /\ NoSetterCalled /\ Success
    /\ Len(fields) = 2 /\ ~fields[1].req /\ fields[2].req
    /\ args[1] # fields[1].default.val
    /\ assertions # <<>>

(***************************************************************************)
(* C4: after new(mandatory arguments) and any sequence of setter calls, the *)
(* record build() yields holds, for each optional field, the value of the   *)
(* last setter call on it (its declared default if its setter was never     *)
(* called) and, for each mandatory field, its constructor argument.         *)
(***************************************************************************)
C4_LastSetterWins ==
    (split /\ Built /\ Success)
        => \A i \in 1..Len(fields) : result.rec[fields[i].name] = Expected(i)

C4_Witness ==
    /\ split /\ Built /\ Success
    /\ Len(fields) = 2 /\ fields[1].req /\ ~fields[2].req
    /\ lastSet[fields[2].name] # None
    /\ lastSet[fields[2].name][1] # fields[2].default.val

(***************************************************************************)
(* C5: build() succeeds if and only if the final field bindings satisfy    *)
(* every assertion; otherwise the failure reported is that of the first    *)
(* violated assertion in declaration order and no later one is evaluated.  *)
(***************************************************************************)
C5_FirstViolatedReported ==
    (Built /\ AllPresent)
        => LET bind == [n \in NameSet(fields) |-> builder.slots[n][1]]
           IN /\ Success <=> ViolatedSet(bind) = {}
              /\ ViolatedSet(bind) # {} =>
                    /\ result.evaluated = FirstViolated(bind)
                    /\ result.msg \in
                          { "assertion failed: '" \o AssertionText(assertions[FirstViolated(bind)]) \o "'",
                            AssertPanicMsg(assertions[FirstViolated(bind)]) }

C5_Witness ==
    /\ Built /\ AllPresent /\ ~Success
    /\ Len(assertions) = 2
    /\ assertions[1] # assertions[2]
    /\ LET bind == [n \in NameSet(fields) |-> builder.slots[n][1]]
       IN ViolatedSet(bind) = {1, 2}

(***************************************************************************)
(* C6: in Data purpose a failed assertion makes build() return an Err (not  *)
(* a panic) whose message is "assertion failed: '<text of the assertion>'", *)
(* in the non-consuming and in the consuming builder.                       *)
(***************************************************************************)
C6_DataAssertionErr ==
    \A v \in {"non_consuming", "consuming"} :
        (purpose = "data" /\ variant = v /\ Built /\ AllPresent)
            => LET bind == [n \in NameSet(fields) |-> builder.slots[n][1]]
               IN ViolatedSet(bind) # {} =>
                     /\ result.kind = "Err"
                     /\ result.msg = "assertion failed: '"
                                       \o AssertionText(assertions[FirstViolated(bind)]) \o "'"

C6_Witness ==
    /\ purpose = "data" /\ split /\ variant = "consuming" /\ Built
    /\ result.kind = "Err"
    /\ result.msg = "assertion failed: 'assert!(a >= 1)'"

(***************************************************************************)
(* C7: in Object purpose build() returns the record itself, never a Result; *)
(* a missing slot or a failed assertion makes it panic, and it never        *)
(* returns a record that violates an assertion.                             *)
(***************************************************************************)
C7_ObjectPanics ==
    (purpose = "object" /\ Built)
        => /\ result.kind \in {"value", "panic"}
           /\ ~AllPresent => result.kind = "panic"
           /\ (AllPresent /\ ViolatedSet([n \in NameSet(fields) |-> builder.slots[n][1]]) # {})
                 => result.kind = "panic"
           /\ result.kind = "value" => ViolatedSet(result.rec) = {}

C7_Witness ==
    /\ purpose = "object" /\ Built /\ result.kind = "panic"
    /\ AllPresent
    /\ lastSet # <<>> /\ ~NoSetterCalled

C9_CtorParams ==
    (split /\ phase = "expanded")
        => /\ gen.params = [k \in 1..Len(MandatoryFields) |-> MandatoryFields[k].name]
           /\ builder.st # "none" => Len(args) = Len(MandatoryFields)

C9_Witness ==
    /\ split /\ phase = "expanded" /\ builder.st = "live"
    /\ Len(fields) = 2 /\ fields[1].req /\ fields[2].req
    /\ args[1] # args[2]

(***************************************************************************)
(* C10: in the split pipeline the builder has exactly one setter per        *)
(* defaulted field and no setter for a mandatory field.                     *)
(***************************************************************************)
C10_SettersForDefaulted ==
    (split /\ phase = "expanded")
        => /\ Len(gen.setters) = Len(DefaultedFields)
           /\ \A i \in 1..Len(fields) :
                 Cardinality({ k \in 1..Len(gen.setters) : gen.setters[k] = fields[i].name })
                    = IF fields[i].req THEN 0 ELSE 1

C10_Witness ==
    /\ split /\ phase = "expanded" /\ builder.st = "live"
    /\ Len(fields) = 2 /\ ~fields[1].req /\ fields[2].req
    /\ lastSet[fields[1].name] # None


(***************************************************************************)
(* Vocabulary of the parsing properties.                                   *)
(***************************************************************************)

\* The raw field entries of the input, in declaration order.
IsRawField(r) == r.kind = "field"

DeclaredFields == SelectSeq(input.body, IsRawField)

DeclaredNames == [i \in 1..Len(DeclaredFields) |-> DeclaredFields[i].name]

NamesOf(decl) == [i \in 1..Len(decl.fields) |-> decl.fields[i].name]

(***************************************************************************)
(* C1: for every valid specification with any mix of mandatory and          *)
(* defaulted fields, the field order of the emitted record type and of the  *)
(* builder type equals the declaration order of the fields; the             *)
(* mandatory/optional split does not reorder the output fields.             *)
(***************************************************************************)
C1_Original ==
    output.struct # <<>>
        => /\ NamesOf(output.struct[1]) = DeclaredNames
           /\ NamesOf(output.builder_struct[1]) = DeclaredNames

\* The parser has stopped rewriting itself.
ParseDone == parser.state \in {"Emit", "Expanding", "Rejected"}

\* The parser has handed the classified fields over.
ReachedEmit == parser.state \in {"Emit", "Expanding"}

ModeWritten == input.mode \in {"->", "=>"}

IsMandatory(n) ==
    \E i \in 1..Len(parser.mandatory_fields) : parser.mandatory_fields[i].name = n

IsOptionalWith(n, d) ==
    \E i \in 1..Len(parser.optional_fields) :
        parser.optional_fields[i].name = n /\ parser.optional_fields[i].default = d

\* A field entry one of the four field rules consumes.
Recognised(r) == r.kind = "field" /\ r.default \in {"None", "Some"} /\ r.comma

\* The input is one every rule on the way to impl_struct_and_builder! accepts.
WellFormedInput ==
    /\ ModeWritten
    /\ \A i \in 1..Len(input.body) : input.body[i].kind = "field" => Recognised(input.body[i])
    /\ input.body # <<>> => input.body[Len(input.body)].kind = "field"

(***************************************************************************)
(* C11: the marker `->` generates a non-consuming builder (setters take     *)
(* &mut self and return &mut Self, build takes &self) and `=>` a consuming  *)
(* one (setters take self and return Self, build takes self).  Checked on   *)
(* the impl_builder! invocation impl_struct_and_builder! expands to.        *)
(***************************************************************************)
C11_ModeSelectsVariant ==
    output.impl_call # <<>> =>
        LET v == output.impl_call[1].variant
        IN /\ input.mode = "->" =>
                /\ v = "non_consuming"
                /\ SetterSelf(v) = "&mut self" /\ SetterReturn(v) = "&mut Self"
                /\ BuildSelf(v) = "&self"
                /\ ~Moves(SetterSelf(v)) /\ ~Moves(BuildSelf(v))
           /\ input.mode = "=>" =>
                /\ v = "consuming"
                /\ SetterSelf(v) = "mut self" /\ SetterReturn(v) = "Self"
                /\ BuildSelf(v) = "self"
                /\ Moves(SetterSelf(v)) /\ Moves(BuildSelf(v))

C11_Witness ==
    /\ output.impl_call # <<>>
    /\ input.mode = "=>"
    /\ output.impl_call[1].variant = "consuming"

(***************************************************************************)
(* C12 as stated: a field written without a default is classified           *)
(* mandatory, and a field written with any default expression (`= 123`) is  *)
(* classified optional with that default.                                   *)
(***************************************************************************)
C12_Original ==
    ( /\ ParseDone
      /\ ModeWritten
      /\ \A i \in 1..Len(input.body) :
            /\ input.body[i].kind = "field"
            /\ input.body[i].comma
            /\ input.body[i].default \in {"Absent", "Bare"} )
    => \A i \in 1..Len(input.body) :
            IF input.body[i].default = "Absent"
            THEN IsMandatory(input.body[i].name)
            ELSE IsOptionalWith(input.body[i].name, input.body[i].default)

(***************************************************************************)
(* C13 as stated: a field list whose last field has no trailing comma is    *)
(* not rejected and its fields are classified as with the comma.            *)
(***************************************************************************)
NoTrailingComma ==
    /\ ModeWritten
    /\ input.body # <<>>
    /\ LET r == input.body[Len(input.body)]
       IN r.kind = "field" /\ r.default \in {"None", "Some"} /\ ~r.comma

C13_Original ==
    NoTrailingComma =>
        /\ parser.state # "Rejected"
        /\ ReachedEmit =>
              LET r == input.body[Len(input.body)]
              IN IF r.default = "None" THEN IsMandatory(r.name)
                 ELSE IsOptionalWith(r.name, r.default)

(***************************************************************************)
(* C14: the record type and the builder type are emitted pub iff the header *)
(* starts with pub; a record field is emitted pub iff its entry starts with *)
(* pub, and every other field carries no visibility.                        *)
(***************************************************************************)
RawFieldNamed(n) ==
    CHOOSE r \in { input.body[i] : i \in 1..Len(input.body) } : r.kind = "field" /\ r.name = n

C14_Visibility ==
    output.struct # <<>> =>
        LET st == output.struct[1]
            bd == output.builder_struct[1]
        IN /\ st.vis = (IF input.pub THEN <<"pub">> ELSE <<>>)
           /\ bd.vis = (IF input.pub THEN <<"pub">> ELSE <<>>)
           /\ \A i \in 1..Len(st.fields) :
                 st.fields[i].vis =
                    (IF RawFieldNamed(st.fields[i].name).pub THEN <<"pub">> ELSE <<>>)

C14_Witness ==
    /\ output.struct # <<>>
    /\ input.pub
    /\ \E i, j \in 1..Len(output.struct[1].fields) :
          /\ output.struct[1].fields[i].vis = <<"pub">>
          /\ output.struct[1].fields[j].vis = <<>>

(***************************************************************************)
(* C15 as stated: for every input of the grammar the parser reaches Emit    *)
(* and what it hands over is accepted by declare_structs! and by            *)
(* impl_builder!, so nothing is rejected.                                   *)
(***************************************************************************)
C15_Original ==
    WellFormedInput => parser.state # "Rejected" /\ output.impl # "rejected"

(***************************************************************************)
(* C16: a field entry no field rule matches makes the expansion fail: the   *)
(* parser never reaches Emit and nothing is emitted.                        *)
(***************************************************************************)
HasMalformedField ==
    \E i \in 1..Len(input.body) :
        input.body[i].kind = "field" /\ ~Recognised(input.body[i])

C16_MalformedRejected ==
    HasMalformedField => ~ReachedEmit /\ output = NoOutput

C16_Witness ==
    /\ HasMalformedField
    /\ parser.state = "Rejected"
    /\ Len(parser.mandatory_fields) + Len(parser.optional_fields) >= 1

\* The builder carries every setter call made on the chain since new.
CarriesSetters ==
    \A n \in DOMAIN lastSet : lastSet[n] # None => builder.slots[n] = lastSet[n]

(***************************************************************************)
(* C17: in consuming mode a setter call and a build call take the builder   *)
(* by value: the binding they were called on is moved out of, the setter    *)
(* hands the builder back as its return value, which carries the effect of  *)
(* every earlier call of the chain, and nothing is left after build.        *)
(***************************************************************************)
C17_ConsumingMoves ==
    variant = "consuming" =>
        /\ call.op = "setter" =>
              /\ Moves(call.self)
              /\ call.ret = "Self"
              /\ builder.st = "live"
              /\ CarriesSetters
        /\ call.op = "build" =>
              /\ Moves(call.self)
              /\ builder.st = "gone"
              /\ ~ENABLED Setter
              /\ ~ENABLED Build

C17_Witness ==
    /\ variant = "consuming"
    /\ call.op = "build"
    /\ builder.st = "gone"
    /\ Success
    /\ \E n \in DOMAIN lastSet : lastSet[n] # None

(***************************************************************************)
(* C18: in non-consuming mode a setter borrows the builder mutably, assigns *)
(* the slot in place and returns a reference to the same builder, which     *)
(* stays usable for further setter calls and for build.                     *)
(***************************************************************************)
C18_NonConsumingInPlace ==
    (variant = "non_consuming" /\ call.op = "setter") =>
        /\ call.self = "&mut self"
        /\ ~Moves(call.self)
        /\ call.ret = "&mut Self"
        /\ builder.st = "live"
        /\ CarriesSetters
        /\ ENABLED Setter
        /\ ENABLED Build

C18_Witness ==
    /\ variant = "non_consuming"
    /\ call.op = "setter"
    /\ builder.st = "live"
    /\ \E n \in DOMAIN lastSet : lastSet[n] # None /\ builder.slots[n] = lastSet[n]

(***************************************************************************)
(* C20: for the same fields, assertions and calls, the data build returns   *)
(* Ok(r) exactly when the object build returns r, and Err exactly when the  *)
(* object build panics; the build that ran is the one of the purpose.       *)
(***************************************************************************)
C20_PurposesAgree ==
    (split /\ builder.st # "none") =>
        LET d == BuildData(fields, assertions, builder.slots)
            o == BuildObject(fields, assertions, builder.slots)
        IN /\ d.kind \in {"Ok", "Err"}
           /\ d.kind = "Ok" <=> o.kind = "value"
           /\ d.kind = "Ok" => d.rec = o.rec
           /\ d.kind = "Err" <=> o.kind = "panic"
           /\ Built => result = (IF purpose = "data" THEN d ELSE o)

C20_Witness ==
    /\ split
    /\ purpose = "data"
    /\ Built
    /\ result.kind = "Err"
    /\ BuildObject(fields, assertions, builder.slots).kind = "panic"

\* The slots new(args) produces.
DefaultSlots == NewBuilder(gen, args).slots

ParserRank(st) ==
    CASE st = "ParsingItemMetadata" -> 1
      [] st = "ParsingFields" -> 3
      [] st = "Emit" -> 4
      [] st = "Expanding" -> 5
      [] st = "Rejected" -> 6
      [] OTHER -> 0

\* What the parser has accumulated.
Accumulated ==
    <<parser.vis, parser.meta, parser.mandatory_fields, parser.optional_fields,
      parser.field_wip, parser.parser_wip>>

(***************************************************************************)
(* C21: the parser starts in ParsingItemMetadata and passes through header, *)
(* ParsingFields and Emit in this order without returning to an earlier     *)
(* stage; from Emit the only step is the invocation of                      *)
(* impl_struct_and_builder!, which issues the declare_structs! and the      *)
(* impl_builder! invocation or is rejected, and nothing is parsed after.    *)
(***************************************************************************)
C21_StageOrder ==
    /\ parser.state = "ParsingItemMetadata"
    /\ [][ /\ ParserRank(parser'.state) >= ParserRank(parser.state)
           /\ parser.state = "ParsingItemMetadata" =>
                 parser'.state \in {"ParsingItemMetadata", "ParsingFields"}
           /\ parser.state = "ParsingFields" =>
                 parser'.state \in {"ParsingFields", "Emit", "Rejected"}
           /\ parser.state = "Emit" =>
                 /\ parser'.state \in {"Emit", "Expanding", "Rejected"}
                 /\ parser'.state = "Expanding" =>
                       output'.declare_call # <<>> /\ output'.impl_call # <<>>
           /\ ReachedEmit => Accumulated' = Accumulated
         ]_vars

C21_Witness ==
    /\ parser.state = "Expanding"
    /\ output.declare_call # <<>>
    /\ output.impl_call # <<>>
    /\ Len(parser.meta) >= 1
    /\ Len(parser.mandatory_fields) + Len(parser.optional_fields) >= 1

(***************************************************************************)
(* C22: parsing terminates: every step taken in ParsingFields removes one   *)
(* annotation or one field entry from the raw tail, or ends the parsing     *)
(* (Emit with the tail empty, or a rejection), and one of the two ends is   *)
(* reached.                                                                 *)
(***************************************************************************)
C22_Terminates ==
    /\ [][ (InFields /\ parser' # parser) =>
              \/ /\ parser'.state = "ParsingFields"
                 /\ Len(parser'.parser_wip) = Len(parser.parser_wip) - 1
              \/ /\ parser'.state = "Emit"
                 /\ parser.parser_wip = <<>>
              \/ parser'.state = "Rejected"
         ]_vars
    /\ <>(ReachedEmit \/ parser.state = "Rejected")

C22_Witness ==
    /\ parser.state = "Emit"
    /\ Len(input.body) >= 2
    /\ \E i \in 1..Len(input.body) : input.body[i].kind = "meta"

(***************************************************************************)
(* C23: at Emit the classified fields, mandatory and optional together, are *)
(* as many as the raw field entries, and every raw field entry has exactly  *)
(* one classified field of its name.                                        *)
(***************************************************************************)
ClassifiedCount(n) ==
    Cardinality({ i \in 1..Len(parser.mandatory_fields) : parser.mandatory_fields[i].name = n })
    + Cardinality({ i \in 1..Len(parser.optional_fields) : parser.optional_fields[i].name = n })

C23_OneEntryPerField ==
    ReachedEmit =>
        /\ Len(parser.mandatory_fields) + Len(parser.optional_fields) = Len(DeclaredFields)
        /\ \A i \in 1..Len(DeclaredFields) : ClassifiedCount(DeclaredFields[i].name) = 1

C23_Witness ==
    /\ ReachedEmit
    /\ Len(parser.mandatory_fields) >= 1
    /\ Len(parser.optional_fields) >= 1
    /\ Len(DeclaredFields) >= 2

(***************************************************************************)
(* C24: the annotations written directly before a field entry are moved one *)
(* at a time into field_wip; the classified field receives exactly them, in *)
(* written order, and field_wip is empty again afterwards, so a field never *)
(* carries an annotation written before another field.                      *)
(***************************************************************************)
\* The annotations written directly before position i of the body, in order.
PrecedingMetas(i) ==
    LET prev == { j \in 1..(i - 1) : input.body[j].kind = "field" }
        s == IF prev = {} THEN 0 ELSE CHOOSE j \in prev : \A k \in prev : k <= j
    IN [k \in 1..(i - 1 - s) |-> input.body[s + k].id]

PositionOf(n) ==
    CHOOSE i \in 1..Len(input.body) : input.body[i].kind = "field" /\ input.body[i].name = n

ClassifiedFields == parser.mandatory_fields \o parser.optional_fields

C24_FieldAnnotations ==
    /\ InFields =>
          parser.field_wip = PrecedingMetas(Len(input.body) - Len(parser.parser_wip) + 1)
    /\ \A i \in 1..Len(ClassifiedFields) :
          ClassifiedFields[i].meta = PrecedingMetas(PositionOf(ClassifiedFields[i].name))

C24_Witness ==
    /\ ReachedEmit
    /\ \E i, j \in 1..Len(ClassifiedFields) :
          /\ ClassifiedFields[i].meta # <<>>
          /\ ClassifiedFields[j].meta = <<>>
          /\ PositionOf(ClassifiedFields[i].name) < PositionOf(ClassifiedFields[j].name)

(***************************************************************************)
(* C25 as stated: a field written `= None` is classified mandatory, and a   *)
(* field written with any other default expression is classified optional   *)
(* with that expression stored as written.                                  *)
(***************************************************************************)
C25_Original ==
    ( /\ ParseDone
      /\ ModeWritten
      /\ \A i \in 1..Len(input.body) :
            /\ input.body[i].kind = "field"
            /\ input.body[i].comma
            /\ input.body[i].default \in {"None", "Some", "Bare"} )
    => \A i \in 1..Len(input.body) :
            IF input.body[i].default = "None"
            THEN IsMandatory(input.body[i].name)
            ELSE IsOptionalWith(input.body[i].name, input.body[i].default)

(***************************************************************************)
(* C26 as stated: at the header and at each field entry the pub pattern is  *)
(* attempted before the plain pattern.                                      *)
(***************************************************************************)
Before(rules, r1, r2) == IndexOf(rules, r1) < IndexOf(rules, r2)

\* The entry at the head of the raw tail is written with a leading pub.
HeadIsPubField ==
    /\ InFields
    /\ parser.parser_wip # <<>>
    /\ Head(parser.parser_wip).kind = "field"
    /\ Head(parser.parser_wip).pub

InDeclarationOrder(list) ==
    \A i, j \in 1..Len(list) :
        i < j => PositionOf(list[i].name) < PositionOf(list[j].name)

WrittenNone(r) == r.default = "None"

WrittenSome(r) == r.default = "Some"

NamesIn(list) == [i \in 1..Len(list) |-> list[i].name]

C27_StablePartition ==
    /\ InDeclarationOrder(parser.mandatory_fields)
    /\ InDeclarationOrder(parser.optional_fields)
    /\ \A i \in 1..Len(DeclaredFields) : ClassifiedCount(DeclaredFields[i].name) <= 1
    /\ ReachedEmit =>
          /\ NamesIn(parser.mandatory_fields) = NamesIn(SelectSeq(DeclaredFields, WrittenNone))
          /\ NamesIn(parser.optional_fields) = NamesIn(SelectSeq(DeclaredFields, WrittenSome))

C27_Witness ==
    /\ ReachedEmit
    /\ Len(parser.optional_fields) = 2
    /\ Len(parser.mandatory_fields) = 1
    /\ DeclaredFields[2].default = "None"

(***************************************************************************)
(* C28 as stated: each stripped annotation is put in front of the ones      *)
(* stripped before it.                                                      *)
(***************************************************************************)
Reverse(seq) == [i \in 1..Len(seq) |-> seq[Len(seq) + 1 - i]]

Stripped == SubSeq(input.metas, 1, Len(parser.meta))

C29_NewAssignsAll ==
    (split /\ phase = "expanded") =>
        /\ Len(gen.assignments) = Len(fields)
        /\ \A i \in 1..Len(fields) :
              /\ gen.assignments[i].name = fields[i].name
              /\ gen.assignments[i].src = (IF fields[i].req THEN "param" ELSE "default")
        /\ call.op = "new" =>
              /\ DOMAIN builder.slots = NameSet(fields)
              /\ \A i \in 1..Len(fields) :
                    builder.slots[fields[i].name] =
                       Some(IF fields[i].req THEN ArgFor(i) ELSE EvalExpr(fields[i].default))

C29_Witness ==
    /\ split
    /\ call.op = "new"
    /\ Len(fields) = 2
    /\ ~fields[1].req
    /\ fields[2].req
    /\ builder.slots[fields[2].name] = Some(args[1])

(***************************************************************************)
(* C30: build first unwraps the slots and fails at the first absent one     *)
(* without evaluating an assertion; with every slot present it evaluates    *)
(* the assertions in order up to the first that fails and then assembles no *)
(* record; the record is assembled only after every assertion held.         *)
(***************************************************************************)
C30_BuildOrder ==
    Built =>
        IF ~AllPresent
        THEN /\ result.kind \in {"Err", "panic"}
             /\ result.unwrapped = FirstAbsent(fields, builder.slots) - 1
             /\ result.evaluated = 0
             /\ result.rec = <<>>
        ELSE LET bind == Bindings(fields, builder.slots)
             IN /\ result.unwrapped = Len(fields)
                /\ IF ViolatedSet(bind) # {}
                   THEN /\ result.kind \in {"Err", "panic"}
                        /\ result.evaluated = FirstViolated(bind)
                        /\ result.rec = <<>>
                   ELSE /\ Success
                        /\ result.evaluated = Len(assertions)
                        /\ result.rec = bind

C30_Witness ==
    /\ Built
    /\ ~AllPresent
    /\ assertions # <<>>
    /\ result.evaluated = 0
    /\ result.unwrapped = 1

\* The bindings build() takes out of the slots of the builder it was called on.
SlotBindings == [n \in NameSet(fields) |-> builder.slots[n][1]]

\* The written text of an assertion over the first field.
FirstFieldText(a) ==
    IF a.op = "div" THEN "assert!(1 / a >= 1)" ELSE "assert!(a >= 1)"

(***************************************************************************)
(* C31: in Data purpose a panic raised while an assertion is evaluated is   *)
(* contained to that assertion: build() returns the same Err, carrying the  *)
(* assertion's literal text, as for a false predicate, no later assertion   *)
(* is evaluated, and no panic leaves build().                               *)
(***************************************************************************)
C31_PanicContained ==
    (split /\ purpose = "data" /\ Built)
        => /\ result.kind \in {"Ok", "Err"}
           /\ ViolatedSet(SlotBindings) # {} =>
                 /\ result.kind = "Err"
                 /\ result.evaluated = FirstViolated(SlotBindings)
                 /\ result.msg = "assertion failed: '"
                        \o FirstFieldText(assertions[FirstViolated(SlotBindings)]) \o "'"
           /\ ViolatedSet(SlotBindings) = {} => result.kind = "Ok"

C31_Witness ==
    /\ split /\ purpose = "data" /\ Built
    /\ Len(assertions) = 2
    /\ result.kind = "Err"
    /\ result.evaluated = 1
    /\ Eval(assertions[1], SlotBindings) = "panic"
    /\ result.msg = "assertion failed: 'assert!(1 / a >= 1)'"

\* The fields of a declaration are the declared ones, each once.
SameFieldsAsDeclared(decl) ==
    /\ Len(decl.fields) = Len(DeclaredFields)
    /\ { decl.fields[i].name : i \in 1..Len(decl.fields) } =
          { DeclaredFields[i].name : i \in 1..Len(DeclaredFields) }

(***************************************************************************)
(* C32: declare_structs! emits the record type with exactly the declared    *)
(* fields, each with its own visibility and its own annotations, and the    *)
(* builder type with exactly one slot per field, of the field's type        *)
(* wrapped in Option, with the field's annotations and without its `pub`.   *)
(***************************************************************************)
C32_DeclarationsEmitted ==
    output.struct # <<>> =>
        LET st == output.struct[1]
            bd == output.builder_struct[1]
        IN /\ SameFieldsAsDeclared(st)
           /\ SameFieldsAsDeclared(bd)
           /\ \A i \in 1..Len(st.fields) :
                 /\ st.fields[i].ty = "T"
                 /\ st.fields[i].vis =
                       (IF RawFieldNamed(st.fields[i].name).pub THEN <<"pub">> ELSE <<>>)
                 /\ st.fields[i].meta = PrecedingMetas(PositionOf(st.fields[i].name))
           /\ \A i \in 1..Len(bd.fields) :
                 /\ bd.fields[i].ty = "Option<T>"
                 /\ bd.fields[i].vis = <<>>
                 /\ bd.fields[i].meta = PrecedingMetas(PositionOf(bd.fields[i].name))

C32_Witness ==
    /\ output.struct # <<>>
    /\ output.builder_struct # <<>>
    /\ \E i \in 1..Len(output.struct[1].fields), j \in 1..Len(output.builder_struct[1].fields) :
          /\ output.struct[1].fields[i].name = output.builder_struct[1].fields[j].name
          /\ output.struct[1].fields[i].vis = <<"pub">>
          /\ output.struct[1].fields[i].meta # <<>>
          /\ output.builder_struct[1].fields[j].vis = <<>>
          /\ output.builder_struct[1].fields[j].meta = output.struct[1].fields[i].meta

\* The slots as new and the setter calls since left them.
SlotsByCalls ==
    [n \in NameSet(fields) |-> IF lastSet[n] # None THEN lastSet[n] ELSE DefaultSlots[n]]

(***************************************************************************)
(* C33: in non-consuming mode a build() that fails (an absent slot or a     *)
(* failed assertion) leaves the builder usable with every slot as it was,   *)
(* and a build() called after an earlier one failed succeeds as soon as     *)
(* the setter calls in between have filled every slot with values that      *)
(* satisfy the assertions.                                                  *)
(***************************************************************************)
C33_NoPartialState ==
    (variant = "non_consuming" /\ call.op = "build")
        => /\ ~Success => builder.slots = SlotsByCalls
           /\ result.kind = "Err" => builder.st = "live"
           /\ (history.failed /\ AllPresent /\ ViolatedSet(SlotBindings) = {}) => Success

C33_Witness ==
    /\ variant = "non_consuming" /\ call.op = "build"
    /\ ~split
    /\ Len(fields) = 2 /\ fields[2].default = NoneExpr
    /\ assertions # <<>>
    /\ history.failed
    /\ Success

(***************************************************************************)
(* C37: in non-consuming mode build() leaves the builder unchanged: every   *)
(* slot holds after build() what it held before, and a build() that         *)
(* directly follows another build() returns what that one returned, the     *)
(* same record or the same failure.                                         *)
(***************************************************************************)
C37_BuildLeavesBuilder ==
    (variant = "non_consuming" /\ call.op = "build")
        => /\ builder.slots = SlotsByCalls
           /\ result.kind # "panic" => builder.st = "live"
           /\ history.prev.kind # "none" => result = history.prev

C37_Witness ==
    /\ variant = "non_consuming" /\ call.op = "build"
    /\ history.prev.kind = "Ok"
    /\ assertions # <<>>
    /\ result = history.prev
    /\ \E n \in DOMAIN lastSet : lastSet[n] # None

\* What holds of the builder without the split up to the outcome of a build
\* that found every slot present.
NoSplitUpToAssertions ==
    /\ gen.params = <<>>
    /\ gen.setters = [i \in 1..Len(fields) |-> FieldNames[i]]
    /\ (call.op = "new") =>
          \A i \in 1..Len(fields) :
             builder.slots[fields[i].name] =
                (IF fields[i].default.kind = "none" THEN None
                 ELSE Some(fields[i].default.val))
    /\ (Built /\ ~AllPresent) =>
          /\ result.kind = "Err"
          /\ \E i \in 1..Len(fields) :
                /\ builder.slots[fields[i].name] = None
                /\ \A j \in 1..(i - 1) : builder.slots[fields[j].name] # None
                /\ result.msg = "Must pass argument for field: '" \o FieldNames[i] \o "'"

C35_Original ==
    output.impl_call # <<>> =>
        /\ input.mode = "->" => output.impl_call[1].variant = "consuming"
        /\ input.mode = "=>" => output.impl_call[1].variant = "non_consuming"

\* C35 (amended): the mode marker distinguishes non-consuming builder
\* generation, selected by the single arrow-like marker `->`, from consuming
\* builder generation, selected by the double arrow-like marker `=>`; no
\* other marker generates a builder.
C35_MarkerSelects ==
    output.impl_call # <<>> =>
        /\ input.mode \in {"->", "=>"}
        /\ output.impl_call[1].variant = "non_consuming" <=> input.mode = "->"
        /\ output.impl_call[1].variant = "consuming" <=> input.mode = "=>"

C35_Witness ==
    /\ output.impl_call # <<>>
    /\ input.mode = "->"
    /\ output.impl_call[1].variant = "non_consuming"
    /\ input.body # <<>>

(***************************************************************************)
(* C36: in the split pipeline every slot, mandatory or defaulted, is        *)
(* present in every builder state reachable by new(...) followed by any     *)
(* sequence of setter calls; hence the unwrap of a slot in build() never    *)
(* fails and no build ends with a missing mandatory field.                  *)
(***************************************************************************)
C36_SlotsAlwaysPresent ==
    (split /\ builder.st # "none")
        => /\ DOMAIN builder.slots = NameSet(fields)
           /\ \A n \in NameSet(fields) : builder.slots[n] # None
           /\ Built =>
                 /\ result.msg # UnwrapPanicMsg
                 /\ result.unwrapped = Len(fields)
                 /\ \A i \in 1..Len(fields) : result.msg # MustPassMsg(fields[i].name)

C36_Witness ==
    /\ split /\ Built
    /\ call.op = "build"
    /\ Len(fields) = 2 /\ fields[1].req /\ ~fields[2].req
    /\ lastSet[fields[2].name] # None
    /\ assertions = <<>>
    /\ result.unwrapped = 2

(***************************************************************************)
(* C38: a setter changes only the slot of its own field: setter calls on    *)
(* two different fields commute (either order gives the same builder), and  *)
(* two calls of the same setter leave the slot holding the value of the     *)
(* last call.  Stated of every setter pair on every reachable builder, and  *)
(* of the builder the setter calls made so far have produced.               *)
(***************************************************************************)
C38_SettersIndependent ==
    builder.st = "live" =>
        /\ call.op = "setter" => builder.slots = SlotsByCalls
        /\ \A i, j \in 1..Len(gen.setters) : \A v, w \in Values :
              LET n == gen.setters[i]
                  m == gen.setters[j]
                  once == SetterBody(builder, n, v)
              IN /\ once.st = builder.st
                 /\ once.slots[n] = Some(v)
                 /\ \A k \in DOMAIN builder.slots \ {n} : once.slots[k] = builder.slots[k]
                 /\ n # m => SetterBody(once, m, w) = SetterBody(SetterBody(builder, m, w), n, v)
                 /\ SetterBody(once, n, w) = SetterBody(builder, n, w)
                 /\ SetterBody(once, n, w).slots[n] = Some(w)

C38_Witness ==
    /\ builder.st = "live" /\ call.op = "setter"
    /\ Len(gen.setters) = 2
    /\ lastSet[gen.setters[1]] # None
    /\ lastSet[gen.setters[2]] # None
    /\ lastSet[gen.setters[1]] # lastSet[gen.setters[2]]
    /\ builder.slots[gen.setters[1]] # Some(fields[1].default.val)

\* One entry more at the end, the entries before it as they were.
AppendsOne(before, after) ==
    /\ Len(after) = Len(before) + 1
    /\ SubSeq(after, 1, Len(before)) = before

(***************************************************************************)
(* C39: every ParsingFields step leaves the purpose, the item visibility,   *)
(* the item annotations, the names with the mode marker, the assertions and *)
(* all fields classified so far unchanged; a step that goes on parsing      *)
(* appends one annotation to the accumulator, or one field to the end of    *)
(* the mandatory or of the optional list (emptying the accumulator), and    *)
(* takes exactly the first remaining entry; a step that ends the parsing    *)
(* changes neither list.                                                    *)
(***************************************************************************)
C39_FieldStepFrame ==
    [][ InFields =>
          /\ parser'.purpose = parser.purpose
          /\ parser'.vis = parser.vis
          /\ parser'.meta = parser.meta
          /\ parser'.spec = parser.spec
          /\ parser'.mode = parser.mode
          /\ parser'.assertions = parser.assertions
          /\ input' = input
          /\ IF parser'.state = "ParsingFields"
             THEN /\ parser.parser_wip # <<>>
                  /\ parser'.parser_wip = Tail(parser.parser_wip)
                  /\ \/ /\ AppendsOne(parser.field_wip, parser'.field_wip)
                        /\ parser'.mandatory_fields = parser.mandatory_fields
                        /\ parser'.optional_fields = parser.optional_fields
                     \/ /\ AppendsOne(parser.mandatory_fields, parser'.mandatory_fields)
                        /\ parser'.optional_fields = parser.optional_fields
                        /\ parser'.field_wip = <<>>
                     \/ /\ AppendsOne(parser.optional_fields, parser'.optional_fields)
                        /\ parser'.mandatory_fields = parser.mandatory_fields
                        /\ parser'.field_wip = <<>>
             ELSE /\ parser'.mandatory_fields = parser.mandatory_fields
                  /\ parser'.optional_fields = parser.optional_fields
                  /\ parser'.field_wip = parser.field_wip
      ]_vars

C39_Witness ==
    /\ InFields
    /\ parser.meta # <<>>
    /\ parser.mandatory_fields # <<>>
    /\ parser.mandatory_fields[1].vis = <<"pub">>
    /\ parser.optional_fields # <<>>
    /\ parser.parser_wip = <<>>

\* The field body ends with an annotation that no field entry follows.
TrailingAnnotation ==
    input.body # <<>> /\ input.body[Len(input.body)].kind = "meta"

\* The annotations a classified field or a declared field carries.
AttachedMetas(fs) == UNION { { fs[i].meta[k] : k \in 1..Len(fs[i].meta) } : i \in 1..Len(fs) }

(***************************************************************************)
(* C40: an annotation at the end of the field body that no field entry      *)
(* follows is never dropped silently and never attached to a field: the     *)
(* parser cannot reach Emit with annotations left in the accumulator or in  *)
(* the input, and an input with such an annotation ends in a rejection      *)
(* with nothing emitted.                                                    *)
(***************************************************************************)
C40_TrailingAnnotationRejected ==
    /\ ReachedEmit => parser.field_wip = <<>> /\ parser.parser_wip = <<>>
    /\ TrailingAnnotation =>
          /\ ~ReachedEmit
          /\ output = NoOutput
          /\ input.body[Len(input.body)].id \notin AttachedMetas(ClassifiedFields)
          /\ (ParseDone \/ ~ENABLED ParseNext) => parser.state = "Rejected"

C40_Witness ==
    /\ TrailingAnnotation
    /\ parser.state = "Rejected"
    /\ Len(input.body) = 3
    /\ input.body[2].kind = "meta"
    /\ Len(ClassifiedFields) = 1
    /\ parser.field_wip = <<2>>
    /\ Len(parser.parser_wip) = 1

====
